---------------------------- MODULE Spec2Model ----------------------------
(***************************************************************************)
(* Model of the hierarchical test engine Tester (src/testing/tester.ts).   *)
(*                                                                         *)
(* The Tester is a synchronous, re-entrant library: describe() and it()    *)
(* call back into the test program, which calls the Tester again.  A step  *)
(* of the model is one stretch of Tester code between two such hand-overs: *)
(* describe() up to the call of its body, the rest of describe() after the *)
(* body returned, it() up to the call of the unit body, the rest of it()   *)
(* after the body returned or threw, and every other API call as a whole.  *)
(* Hook callbacks are run inside the step of the code that calls them.     *)
(*                                                                         *)
(* The second part models ClientSheetManager (src/email_sender.ts), the    *)
(* registry of client spreadsheets that ClientSheetManagerTest exercises.  *)
(***************************************************************************)
EXTENDS Integers, Sequences, FiniteSets, TLC

\* Bounds of the model.
MaxContexts == 2    \* describe() calls that open a context (the root is extra)
MaxHooks == 2       \* hook registrations of a run
MaxUnits == 2       \* it() calls of a run
MaxSpies == 2       \* spies installed in a run
MaxBodyCalls == 1   \* calls of obj.m() a single unit body makes
MaxUsageErrors == 1 \* usage errors raised in a run
MaxCalls == 4       \* calls of the API but finish
MaxSkips == 1       \* calls of xit and xdescribe
MaxOps == 4         \* calls of ClientSheetManager in a run

\* Tester.INDENT_PER_LEVEL
INDENT_PER_LEVEL == 2

HookTypes == {"beforeAll", "beforeEach", "afterEach", "afterAll"}

\* What a registered callback does when it runs: nothing the Tester sees,
\* t.spyOn(obj, 'm') (as the root beforeEach of ClientSheetManagerTest), or a
\* call of obj.m() (as expectRegisteredCount in the 'regsiter' beforeEach).
HookKinds == {"plain", "spy", "call"}

\* A registered callback that throws.
Throwing == {"throw"}

\* Spreadsheet ids.
Ids == {"sheet-1", "sheet-2", "sheet-3"}

\* What a unit body can throw: an Error with a stack, an Error whose stack
\* is empty and whose message is not, an Error whose stack and message are
\* both empty, a value that is no Error, and a usage error of the Tester
\* itself (an Error with a stack) that the body let through.
Thrown == {"errorStack", "errorMessage", "errorEmpty", "nonError"}

VARIABLES
  verbose,                    \* constructor argument
  indentation,
  ctx,                        \* the DescriptionContext objects, by identity
  currentDescriptionContext,  \* identity of the current context
  descriptionContextStack,    \* identities, root first
  isInsideUnit,
  spy,                        \* the Spy objects, by identity
  slot,                       \* obj.m: 0 the original function, else a spy
  hook,                       \* the registered callbacks, by identity
  pc,                         \* where the test program is
  frames,                     \* describe() calls in progress: descriptions
  bodyCalls,                  \* calls of obj.m() by the running unit body
  calls,                      \* API calls made so far
  units,                      \* history: one record per it() call
  usage,                      \* history: usage errors raised
  log,                        \* history: callbacks and spy operations run
  exits,                      \* history: scopes exited
  result,                     \* what finish() returned
  skips,                      \* history: calls of xit and xdescribe
  property,                   \* script property REGISTERED_CLIENTS
  spreadsheetId,              \* _JasLibContext.spreadsheetId
  caller,                     \* where the caller of ClientSheetManager is
  spreadsheetIds,             \* forEach: the ids from the one in turn on
  ops,                        \* history: calls of ClientSheetManager
  trace                       \* history: fn, flush and sleep calls of forEach

\* The state of the registry and of its caller.
csm == <<property, spreadsheetId, caller, spreadsheetIds, ops, trace>>

vars == <<verbose, indentation, ctx, currentDescriptionContext,
          descriptionContextStack, isInsideUnit, spy, slot, hook, pc, frames,
          bodyCalls, calls, units, usage, log, exits, result, skips, csm>>

Root == 1

getEmptyDescriptionContext ==
  [beforeAlls |-> <<>>, beforeEaches |-> <<>>, afterEaches |-> <<>>,
   afterAlls |-> <<>>, beforeAllsCalled |-> FALSE, successCount |-> 0,
   failureCount |-> 0, output |-> <<>>, spies |-> <<>>]

Reverse(s) == [i \in 1..Len(s) |-> s[Len(s) + 1 - i]]

Last(s) == s[Len(s)]

Front(s) == SubSeq(s, 1, Len(s) - 1)

\* The part of the state a callback can change or read, threaded through
\* the code that runs callbacks one after the other: the objects, the value
\* of isInsideUnit (inside), and whether a callback has thrown, which ends
\* the code that called it (threw).
Cur == [ctx |-> ctx, spy |-> spy, slot |-> slot, log |-> log,
        inside |-> isInsideUnit, threw |-> FALSE]

\* The history gets one more event.
Logged(st, ev, id, c, u) ==
  [st EXCEPT !.log = Append(@, [ev |-> ev, id |-> id, at |-> c, u |-> u,
                                inside |-> st.inside])]

Commit(st) ==
  /\ ctx' = st.ctx
  /\ spy' = st.spy
  /\ slot' = st.slot
  /\ log' = st.log

-----------------------------------------------------------------------------
(* Spy: its source is not part of src/; modelled from spec.md 3 and 4.2.   *)

\* new Spy(object, method): keeps the method found on the object and puts
\* its own wrapper in its place.
NewSpy(st, owner) ==
  [st EXCEPT
     !.spy = Append(@, [owner |-> owner, original |-> st.slot, calls |-> 0,
                        resets |-> 0]),
     !.slot = Len(st.spy) + 1]

\* A call through the wrapper of spy s: the default mode calls through to
\* the kept method (which may be the wrapper of an older spy), then records.
RECURSIVE CallWrapper(_, _)
CallWrapper(st, s) ==
  IF s = 0 THEN st
  ELSE LET through == CallWrapper(st, st.spy[s].original)
       IN [through EXCEPT !.spy[s].calls = @ + 1]

\* obj.m()
CallMethod(st) == CallWrapper(st, st.slot)

\* Spy.clearCalls
clearCalls(st, s) == [st EXCEPT !.spy[s].calls = 0]

\* Spy.reset: puts the kept method back on the object.
reset(st, s) ==
  [st EXCEPT !.spy[s].resets = @ + 1, !.slot = st.spy[s].original]

-----------------------------------------------------------------------------
(* Tester                                                                  *)

indent(n) == n + INDENT_PER_LEVEL

dedent(n) == n - INDENT_PER_LEVEL

\* Mutant: the spy is registered on the root context.
spyOnInstallOnRoot(st, cur) ==
  LET made == NewSpy(st, cur)
      pushed == [made EXCEPT !.ctx[1].spies = Append(@, Len(made.spy))]
  IN Logged(pushed, "spyOn", Len(made.spy), cur, 0)

\* Tester.spyOn past its two checks: installs the spy and registers it on
\* the context that is current when it is called.
spyOnInstall(st, cur) ==
  LET made == NewSpy(st, cur)
      pushed == [made EXCEPT !.ctx[cur].spies = Append(@, Len(made.spy))]
  IN Logged(pushed, "spyOn", Len(made.spy), cur, 0)

\* Running callback h while context cur is current, on behalf of unit u
\* (0: of no unit).
RunCallback(st, h, cur, u) ==
  LET ran == Logged(st, hook[h].type, h, cur, u)
  IN CASE hook[h].kind = "plain" -> ran
       [] hook[h].kind = "spy" ->
            IF ran.inside THEN [ran EXCEPT !.threw = TRUE]
            ELSE spyOnInstall(ran, cur)
       [] hook[h].kind = "call" -> CallMethod(ran)
       [] hook[h].kind = "throw" -> [ran EXCEPT !.threw = TRUE]

\* for (const f of hs) f();  A callback that throws ends the loop.
RECURSIVE RunAll(_, _, _, _)
RunAll(st, hs, cur, u) ==
  IF hs = <<>> \/ st.threw THEN st
  ELSE RunAll(RunCallback(st, Head(hs), cur, u), Tail(hs), cur, u)

maybeExecuteBeforeAlls(st, cur) ==
  IF /\ st.ctx[cur].successCount = 0
     /\ st.ctx[cur].failureCount = 0
     /\ ~st.ctx[cur].beforeAllsCalled
  THEN LET ran == RunAll(st, st.ctx[cur].beforeAlls, cur, 0)
       IN IF ran.threw THEN ran
          ELSE [ran EXCEPT !.ctx[cur].beforeAllsCalled = TRUE]
  ELSE st

\* Mutant: only the current context's beforeEaches run.
beforeEachCurrentOnly(st, stack, cur, u) ==
  RunAll(st, st.ctx[cur].beforeEaches, cur, u)

\* it(), lines 134-136: every beforeEach along the stack, root first.
RECURSIVE beforeEachLoop(_, _, _, _)
beforeEachLoop(st, stack, cur, u) ==
  IF stack = <<>> THEN st
  ELSE beforeEachLoop(RunAll(st, st.ctx[Head(stack)].beforeEaches, cur, u),
                      Tail(stack), cur, u)

\* for (const spy of context.spies) spy.clearCalls();
RECURSIVE clearAll(_, _, _)
clearAll(st, ss, u) ==
  IF ss = <<>> \/ st.threw THEN st
  ELSE clearAll(Logged(clearCalls(st, Head(ss)), "clearCalls", Head(ss), 0,
                       u),
                Tail(ss), u)

\* Mutant: the contexts are taken leaf first, their afterEaches last
\* registered first.
RECURSIVE afterEachLeafFirst(_, _, _, _)
afterEachLeafFirst(st, stack, cur, u) ==
  IF stack = <<>> THEN st
  ELSE LET c == Last(stack)
           after == RunAll(st, Reverse(st.ctx[c].afterEaches), cur, u)
       IN afterEachLeafFirst(clearAll(after, after.ctx[c].spies, u),
                             Front(stack), cur, u)

\* it(), lines 158-161: per context, root first, its afterEaches and then
\* the clearCalls of its spies.
RECURSIVE afterEachLoop(_, _, _, _)
afterEachLoop(st, stack, cur, u) ==
  IF stack = <<>> THEN st
  ELSE LET c == Head(stack)
           after == RunAll(st, st.ctx[c].afterEaches, cur, u)
       IN afterEachLoop(clearAll(after, after.ctx[c].spies, u),
                        Tail(stack), cur, u)

\* for (const spy of spies.reverse()) spy.reset();
RECURSIVE resetAll(_, _, _)
resetAll(st, ss, c) ==
  IF ss = <<>> THEN st
  ELSE resetAll(Logged(reset(st, Head(ss)), "reset", Head(ss), c, 0),
                Tail(ss), c)

\* Mutant: the spies are reset in installation order.
resetInInstallationOrder(st, c) == resetAll(st, st.ctx[c].spies, c)

\* spies.reverse() reverses the context's own array, which is then walked.
resetSpies(st, c) ==
  LET reversed == [st EXCEPT !.ctx[c].spies = Reverse(@)]
  IN resetAll(reversed, reversed.ctx[c].spies, c)

\* A line of output: the number of blanks before it and what it says.
Line(n, kind, of) == [indent |-> n, kind |-> kind, of |-> of]

\* Mutant: the lines are pushed without the blanks before them.
outputWithoutIndentation(st, cur, n, lines, of) ==
  [st EXCEPT !.ctx[cur].output =
     @ \o [i \in 1..Len(lines) |-> Line(0, lines[i], of)]]

\* Tester.output: result.split('\n'), each line behind the indentation.
\* A string is held as the sequence of its lines.
output(st, cur, n, lines, of) ==
  [st EXCEPT !.ctx[cur].output =
     @ \o [i \in 1..Len(lines) |-> Line(n, lines[i], of)]]

\* it(), lines 149-151: e.stack || e.message for an Error, the fixed text
\* otherwise, as the lines of the string.  The empty string is one empty
\* line; <<>> stands for undefined (no failure).
failureOutput(e) ==
  CASE e \in {"errorStack", "usageError"} -> <<"stack1", "stack2">>
    [] e = "errorMessage" -> <<"message">>
    [] e = "errorEmpty" -> <<"">>
    [] e = "nonError" -> <<"noErrorObject">>

\* if (failureOutput): neither undefined nor the empty string.
Truthy(str) == str # <<>> /\ str # <<"">>

-----------------------------------------------------------------------------
(* The run                                                                 *)

Init ==
  /\ verbose \in BOOLEAN
  /\ indentation = INDENT_PER_LEVEL
  /\ ctx = <<getEmptyDescriptionContext>>
  /\ currentDescriptionContext = Root
  /\ descriptionContextStack = <<Root>>
  /\ isInsideUnit = FALSE
  /\ spy = <<>>
  /\ slot = 0
  /\ hook = <<>>
  /\ pc = "idle"
  /\ frames = <<>>
  /\ bodyCalls = 0
  /\ calls = 0
  /\ units = <<>>
  /\ usage = <<>>
  /\ log = <<>>
  /\ exits = <<>>
  /\ result = [returned |-> FALSE]
  /\ skips = <<>>
  /\ property = <<>>
  /\ spreadsheetId = ""
  /\ caller = "idle"
  /\ spreadsheetIds = <<>>
  /\ ops = <<>>
  /\ trace = <<>>

\* Mutant: spyOn lacks the check.
illegalContextButSpyOn(api) == api # "spyOn" /\ isInsideUnit

\* if (this.isInsideUnit) throw ..., the first statement of describe, it,
\* beforeAll, beforeEach, afterEach, afterAll and spyOn.
illegalContext(api) == isInsideUnit

\* Mutant: successCount++ placed where it also runs after a failure.
countSuccessAlways(st, cur, success) ==
  IF success
  THEN [st EXCEPT !.ctx[cur].successCount = @ + 1]
  ELSE [st EXCEPT !.ctx[cur].failureCount = @ + 1,
                  !.ctx[cur].successCount = @ + 1]

\* it(), lines 144-153: the unit counted in the current context.
countUnit(st, cur, success) ==
  IF success
  THEN [st EXCEPT !.ctx[cur].successCount = @ + 1]
  ELSE [st EXCEPT !.ctx[cur].failureCount = @ + 1]

\* Mutant: the catch block does not dedent.
catchWithoutDedent(n) == indent(n)

\* it(), lines 148-152: indent() and dedent() around the diagnostic.
catchIndentation(n) == dedent(indent(n))

Tester == <<indentation, ctx, currentDescriptionContext,
            descriptionContextStack, isInsideUnit, spy, slot, hook>>

\* An exception leaves the Tester through every describe() and it() in
\* progress: what the callbacks did so far stays, the code after the throwing
\* call is not run, and the run ends with the exception in its caller's hands.
propagates(st) ==
  /\ Commit(st)
  /\ pc' = "aborted"
  /\ frames' = <<>>

\* Mutant: isInsideUnit is not set back.
finallyMissing(st) == st

\* it(), lines 154-156: finally { this.isInsideUnit = false; }
finally(st) == [st EXCEPT !.inside = FALSE]

\* it(), lines 144-168: the rest of it() once the unit body has returned
\* (success) or thrown e.  The elapsed time in the marker line is left out.
itSettles(success, e) ==
  LET cur == currentDescriptionContext
      u == Len(units)
      fo == IF success THEN <<>> ELSE failureOutput(e)
      counted == countUnit(Cur, cur, success)
      ind == IF success THEN indentation ELSE catchIndentation(indentation)
      settled == Logged(finally(counted), "settled", u, cur, u)
      after == afterEachLoop(settled, descriptionContextStack, cur, u)
      marked == IF verbose \/ ~success
                THEN output(after, cur, ind,
                            <<IF success THEN "pass" ELSE "fail">>, u)
                ELSE after
      told == IF Truthy(fo) THEN output(marked, cur, ind, fo, u) ELSE marked
  IN /\ Len(told.spy) <= MaxSpies
     /\ IF after.threw
        THEN propagates(after)
        ELSE /\ Commit(told)
             /\ pc' = "idle"
             /\ UNCHANGED frames
     /\ indentation' = ind
     /\ isInsideUnit' = after.inside
     /\ bodyCalls' = 0
     /\ units' = [units EXCEPT ![u].outcome =
                                 IF success THEN "passed" ELSE "failed",
                               ![u].thrown = IF success THEN "nothing" ELSE e]
     /\ UNCHANGED <<verbose, currentDescriptionContext,
                    descriptionContextStack, hook, exits, result>>

\* throw new Error(...) of an API call.  Inside a unit body the body either
\* catches the error and goes on, or lets it through to the catch of it().
\* Outside, the caller either catches it or the run ends with it.
raise(api) ==
  /\ Len(usage) < MaxUsageErrors
  /\ \E caught \in BOOLEAN :
       /\ usage' = Append(usage, [api |-> api, inUnit |-> pc = "unit",
                                  caught |-> caught, u |-> Len(units)])
       /\ IF caught
          THEN UNCHANGED <<verbose, Tester, pc, frames, bodyCalls, units,
                           log, exits, result>>
          ELSE IF pc = "unit"
               THEN itSettles(FALSE, "usageError")
               ELSE /\ propagates(Cur)
                    /\ UNCHANGED <<verbose, indentation,
                                   currentDescriptionContext,
                                   descriptionContextStack, isInsideUnit,
                                   hook, bodyCalls, units, exits, result>>

\* The test program makes one more API call.
Calling ==
  /\ pc \in {"idle", "unit"}
  /\ calls < MaxCalls
  /\ calls' = calls + 1
  /\ UNCHANGED csm

\* One more call of an API that declares something.
Declaring == Calling /\ UNCHANGED skips

describe ==
  /\ Declaring
  /\ IF illegalContext("describe") THEN raise("describe")
     ELSE LET new == Len(ctx) + 1
              before == maybeExecuteBeforeAlls(Cur, currentDescriptionContext)
              cur == currentDescriptionContext
              opened == [before EXCEPT
                           !.ctx = Append(@, getEmptyDescriptionContext)]
              pushed == Logged(opened, "describe", new, cur, 0)
          IN /\ new <= MaxContexts + 1
             /\ Len(before.spy) <= MaxSpies
             /\ IF before.threw
                THEN /\ propagates(before)
                     /\ UNCHANGED <<currentDescriptionContext,
                                    descriptionContextStack, indentation>>
                ELSE /\ Commit(pushed)
                     /\ currentDescriptionContext' = new
                     /\ descriptionContextStack' =
                          Append(descriptionContextStack, new)
                     /\ indentation' = indent(indentation)
                     /\ frames' = Append(frames, new)
                     /\ UNCHANGED pc
             /\ UNCHANGED <<verbose, isInsideUnit, hook, bodyCalls,
                            units, usage, exits, result>>

\* Mutant: the counters of the popped context are not added to the parent's.
foldWithoutCounts(st, parent, last, n, description) ==
  IF verbose \/ st.ctx[last].failureCount # 0
  THEN [st EXCEPT !.ctx[parent].output =
          @ \o <<Line(0, "", 0), Line(n, "description", description)>>
            \o st.ctx[last].output]
  ELSE st

\* Mutant: the output of the popped context is kept only when verbose.
foldOutputWhenVerbose(st, parent, last, n, description) ==
  LET added == [st EXCEPT
                  !.ctx[parent].successCount = @ + st.ctx[last].successCount,
                  !.ctx[parent].failureCount = @ + st.ctx[last].failureCount]
  IN IF verbose
     THEN [added EXCEPT !.ctx[parent].output =
             @ \o <<Line(0, "", 0), Line(n, "description", description)>>
               \o st.ctx[last].output]
     ELSE added

\* describe(), lines 61-69: the popped context's counters and output go to
\* the context that is current again.
fold(st, parent, last, n, description) ==
  LET added == [st EXCEPT
                  !.ctx[parent].successCount = @ + st.ctx[last].successCount,
                  !.ctx[parent].failureCount = @ + st.ctx[last].failureCount]
  IN IF verbose \/ st.ctx[last].failureCount # 0
     THEN [added EXCEPT !.ctx[parent].output =
             @ \o <<Line(0, "", 0), Line(n, "description", description)>>
               \o st.ctx[last].output]
     ELSE added

\* Mutant: the afterAlls of the context are not run.
afterAllsSkipped(st, cur) == st

\* describe(), lines 44-46, and finish(), lines 196-198: the afterAlls of
\* the current context.
afterAllLoop(st, cur) == RunAll(st, st.ctx[cur].afterAlls, cur, 0)

\* describe(), lines 40-72: the rest of describe() once its body returned.
describeReturns ==
  /\ UNCHANGED <<calls, skips, csm>>
  /\ pc = "idle"
  /\ frames # <<>>
  /\ LET cur == currentDescriptionContext
         before == maybeExecuteBeforeAlls(Cur, cur)
         after == afterAllLoop(before, cur)
         n == dedent(indentation)
         last == Last(descriptionContextStack)
         popped == Front(descriptionContextStack)
         parent == Last(popped)
         folded == fold(Logged(after, "pop", last, parent, 0), parent, last,
                        n, Last(frames))
         done == resetSpies(folded, last)
     IN /\ Len(done.spy) <= MaxSpies
        /\ IF after.threw
           THEN /\ propagates(after)
                /\ UNCHANGED <<indentation, descriptionContextStack,
                               currentDescriptionContext, exits>>
           ELSE /\ Commit(done)
                /\ indentation' = n
                /\ descriptionContextStack' = popped
                /\ currentDescriptionContext' = parent
                /\ exits' = Append(exits, last)
                /\ frames' = Front(frames)
                /\ UNCHANGED pc
  /\ UNCHANGED <<verbose, isInsideUnit, hook, bodyCalls, units, usage,
                 result>>

\* beforeAll, beforeEach, afterEach and afterAll, lines 79-105, called with
\* a callback of one of the kinds.
registers(type, api, kinds) ==
  /\ Declaring
  /\ IF illegalContext(api) THEN raise(api)
     ELSE /\ Len(hook) < MaxHooks
          /\ \E kind \in kinds :
               /\ hook' = Append(hook, [type |-> type, kind |-> kind,
                                        scope |-> currentDescriptionContext,
                                        units |-> Len(units),
                                        logged |-> Len(log)])
               /\ ctx' = [ctx EXCEPT ![currentDescriptionContext] =
                    CASE type = "beforeAll" ->
                           [@ EXCEPT !.beforeAlls = Append(@, Len(hook) + 1)]
                      [] type = "beforeEach" ->
                           [@ EXCEPT !.beforeEaches = Append(@, Len(hook) + 1)]
                      [] type = "afterEach" ->
                           [@ EXCEPT !.afterEaches = Append(@, Len(hook) + 1)]
                      [] type = "afterAll" ->
                           [@ EXCEPT !.afterAlls = Append(@, Len(hook) + 1)]]
          /\ UNCHANGED <<verbose, indentation, currentDescriptionContext,
                         descriptionContextStack, isInsideUnit, spy, slot,
                         pc, frames, bodyCalls, units, usage, log, exits,
                         result>>

register(type, api) == registers(type, api, HookKinds)

beforeAll == register("beforeAll", "beforeAll")

beforeEach == register("beforeEach", "beforeEach")

afterEach == register("afterEach", "afterEach")

afterAll == register("afterAll", "afterAll")

\* it(), lines 124-143: up to the call of the unit body.
it ==
  /\ Declaring
  /\ IF illegalContext("it") THEN raise("it")
     ELSE LET cur == currentDescriptionContext
              u == Len(units) + 1
              before == maybeExecuteBeforeAlls(Cur, cur)
              each == beforeEachLoop(before, descriptionContextStack, cur, u)
              entered == Logged([each EXCEPT !.inside = TRUE], "body", u,
                                cur, u)
          IN /\ u <= MaxUnits
             /\ Len(each.spy) <= MaxSpies
             /\ IF each.threw
                THEN /\ propagates(each)
                     /\ UNCHANGED <<isInsideUnit, units>>
                ELSE /\ Commit(entered)
                     /\ isInsideUnit' = entered.inside
                     /\ pc' = "unit"
                     /\ units' = Append(units,
                          [scope |-> cur, stack |-> descriptionContextStack,
                           hooks |-> Len(hook), outcome |-> "running",
                           thrown |-> "nothing", indentation |-> indentation])
                     /\ UNCHANGED frames
             /\ UNCHANGED <<verbose, indentation, currentDescriptionContext,
                            descriptionContextStack, hook, bodyCalls,
                            usage, exits, result>>

\* The unit body calls obj.m().
bodyCalls_m ==
  /\ UNCHANGED <<calls, skips, csm>>
  /\ pc = "unit"
  /\ bodyCalls < MaxBodyCalls
  /\ bodyCalls' = bodyCalls + 1
  /\ Commit(CallMethod(Cur))
  /\ UNCHANGED <<verbose, indentation, currentDescriptionContext,
                 descriptionContextStack, isInsideUnit, hook, pc, frames,
                 units, usage, exits, result>>

bodyReturns ==
  /\ UNCHANGED <<calls, skips, csm>>
  /\ pc = "unit"
  /\ itSettles(TRUE, "nothing")
  /\ UNCHANGED usage

bodyThrows ==
  /\ UNCHANGED <<calls, skips, csm>>
  /\ pc = "unit"
  /\ \E e \in Thrown : itSettles(FALSE, e)
  /\ UNCHANGED usage

\* spyOn(object, method), where object[method] is a function or is not.
spyOn ==
  /\ Declaring
  /\ \E isFunction \in BOOLEAN :
       IF illegalContext("spyOn") THEN raise("spyOn")
       ELSE IF ~isFunction THEN raise("spyOn")
       ELSE /\ Len(spy) < MaxSpies
            /\ Commit(spyOnInstall(Cur, currentDescriptionContext))
            /\ UNCHANGED <<verbose, indentation, currentDescriptionContext,
                           descriptionContextStack, isInsideUnit, hook, pc,
                           frames, bodyCalls, units, usage, exits, result>>

\* The test program calls xit or xdescribe, which have no check of
\* isInsideUnit: anywhere describe and it are called, and in a unit body.
Skipping(api) ==
  /\ Calling
  /\ Len(skips) < MaxSkips
  /\ skips' = Append(skips, [api |-> api, inUnit |-> pc = "unit",
                             at |-> currentDescriptionContext])
  /\ UNCHANGED <<verbose, indentation, currentDescriptionContext,
                 descriptionContextStack, isInsideUnit, hook, pc, frames,
                 bodyCalls, units, usage, exits, result>>

\* xdescribe(), lines 75-77: this.output(`\n${description} (skipped)`), an
\* empty line and the line of the description.
xdescribe ==
  /\ Skipping("xdescribe")
  /\ Commit(output(Cur, currentDescriptionContext, indentation,
                   <<"", "skippedDescription">>, 0))

\* Mutant: xit runs the beforeAlls of the scope as it() does.
xitAsIt ==
  /\ Skipping("xit")
  /\ LET before == maybeExecuteBeforeAlls(Cur, currentDescriptionContext)
     IN Commit(output(before, currentDescriptionContext, indentation,
                      <<"skippedUnit">>, 0))

\* xit(), lines 170-172: this.output(`\u25cb ${unitTestName} (skipped)`).
xit ==
  /\ Skipping("xit")
  /\ Commit(output(Cur, currentDescriptionContext, indentation,
                   <<"skippedUnit">>, 0))

\* finish(): the last call of a run, made when every describe() returned.
finish ==
  /\ UNCHANGED <<calls, skips, csm>>
  /\ pc = "idle"
  /\ frames = <<>>
  /\ LET cur == currentDescriptionContext
         after == afterAllLoop(Cur, cur)
         done == resetSpies(after, cur)
     IN /\ Len(done.spy) <= MaxSpies
        /\ IF after.threw
           THEN /\ propagates(after)
                /\ UNCHANGED <<exits, result>>
           ELSE /\ Commit(done)
                /\ result' = [returned |-> TRUE,
                              successCount |-> done.ctx[cur].successCount,
                              failureCount |-> done.ctx[cur].failureCount,
                              output |-> done.ctx[cur].output]
                /\ exits' = Append(exits, cur)
                /\ pc' = "done"
                /\ UNCHANGED frames
  /\ UNCHANGED <<verbose, indentation, currentDescriptionContext,
                 descriptionContextStack, isInsideUnit, hook,
                 bodyCalls, units, usage>>

Next ==
  \/ describe
  \/ describeReturns
  \/ beforeAll
  \/ beforeEach
  \/ afterEach
  \/ afterAll
  \/ it
  \/ bodyCalls_m
  \/ bodyReturns
  \/ bodyThrows
  \/ spyOn
  \/ xdescribe
  \/ xit
  \/ finish

Spec == Init /\ [][Next]_vars

\* A hook registration whose callback throws when it is run.
registerThrowing == \E type \in HookTypes : registers(type, type, Throwing)

NextThrowing == Next \/ registerThrowing

\* The runs in which registered callbacks may throw.
SpecThrowing == Init /\ [][NextThrowing]_vars

-----------------------------------------------------------------------------
(* ClientSheetManager                                                      *)

\* A JSON text is held as the sequence of its tokens.
Token(t, v) == [t |-> t, v |-> v]

RECURSIVE Elements(_)
Elements(list) ==
  IF list = <<>> THEN <<>>
  ELSE IF Len(list) = 1 THEN <<Token("string", list[1])>>
  ELSE <<Token("string", Head(list)), Token(",", "")>>
         \o Elements(Tail(list))

\* JSON.stringify of an array of strings.
JSON_stringify(list) ==
  <<Token("[", "")>> \o Elements(list) \o <<Token("]", "")>>

\* The elements of an array text past its "[" or past a ",".
RECURSIVE ParseElements(_, _)
ParseElements(toks, acc) ==
  IF Len(toks) < 2 \/ toks[1].t # "string" THEN [ok |-> FALSE, list |-> <<>>]
  ELSE IF toks[2].t = "]"
       THEN [ok |-> Len(toks) = 2, list |-> Append(acc, toks[1].v)]
  ELSE IF toks[2].t = ","
       THEN ParseElements(SubSeq(toks, 3, Len(toks)),
                          Append(acc, toks[1].v))
  ELSE [ok |-> FALSE, list |-> <<>>]

\* JSON.parse, and the check that the value is an array of strings.
JSON_parse(text) ==
  IF Len(text) < 2 \/ text[1].t # "[" THEN [ok |-> FALSE, list |-> <<>>]
  ELSE IF text[2].t = "]" THEN [ok |-> Len(text) = 2, list |-> <<>>]
  ELSE ParseElements(Tail(text), <<>>)

\* ClientSheetManager.getAll: no value (or the empty text) is the empty
\* list; a text that is no array of strings makes it throw.
getAll(value) ==
  IF value = <<>> THEN [ok |-> TRUE, list |-> <<>>] ELSE JSON_parse(value)

\* Mutant: an id is never found in the set.
hasNever(set, id) == FALSE

\* Set.has.  A Set is held as the sequence of its elements in insertion
\* order, which is the order Array.from gives.
has(set, id) == \E i \in DOMAIN set : set[i] = id

\* Set.add
add(set, id) == IF \E i \in DOMAIN set : set[i] = id THEN set
                ELSE Append(set, id)

\* Mutant: every element is deleted.
deleteEvery(set, id) == <<>>

\* Set.delete
delete(set, id) == SelectSeq(set, LAMBDA x : x # id)

\* new Set(array)
RECURSIVE SetOf(_, _)
SetOf(array, set) ==
  IF array = <<>> THEN set ELSE SetOf(Tail(array), add(set, Head(array)))

\* The state of the test engine, which the registry does not touch.
engine == <<verbose, Tester, pc, frames, bodyCalls, calls, units, usage, log,
            exits, result, skips>>

\* One more call of ClientSheetManager or of the library's API.
Operating ==
  /\ caller = "idle"
  /\ Len(ops) < MaxOps
  /\ UNCHANGED engine

Op(op, id, configInvalid, balanceInvalid, wrote) ==
  [op |-> op, id |-> id, configInvalid |-> configInvalid,
   balanceInvalid |-> balanceInvalid, before |-> property, wrote |-> wrote]

\* ClientSheetManager.register(id), lines 77-87, called while Config.get
\* and BalanceSheet.validateActiveSheet would throw for the sheet or not.
ClientSheetManager_register ==
  /\ Operating
  /\ \E id \in Ids, configInvalid \in BOOLEAN, balanceInvalid \in BOOLEAN :
       LET all == getAll(property)
           registeredSet == SetOf(all.list, <<>>)
       IN /\ all.ok
          /\ IF has(registeredSet, id)
             THEN /\ UNCHANGED property
                  /\ ops' = Append(ops, Op("register", id, configInvalid,
                                           balanceInvalid, FALSE))
             ELSE /\ property' = JSON_stringify(add(registeredSet, id))
                  /\ ops' = Append(ops, Op("register", id, configInvalid,
                                           balanceInvalid, TRUE))
  /\ UNCHANGED <<spreadsheetId, caller, spreadsheetIds, trace>>

\* ClientSheetManager.unregister(id), lines 89-99.
ClientSheetManager_unregister ==
  /\ Operating
  /\ \E id \in Ids :
       LET all == getAll(property)
           registeredSet == SetOf(all.list, <<>>)
       IN /\ all.ok
          /\ IF ~has(registeredSet, id)
             THEN /\ UNCHANGED property
                  /\ ops' = Append(ops, Op("unregister", id, FALSE, FALSE,
                                           FALSE))
             ELSE /\ property' = JSON_stringify(delete(registeredSet, id))
                  /\ ops' = Append(ops, Op("unregister", id, FALSE, FALSE,
                                           TRUE))
  /\ UNCHANGED <<spreadsheetId, caller, spreadsheetIds, trace>>

\* testing(spreadsheetId) of api.ts, lines 32-35.
testing ==
  /\ Operating
  /\ \E id \in Ids :
       /\ spreadsheetId' = id
       /\ ops' = Append(ops, Op("testing", id, FALSE, FALSE, FALSE))
  /\ UNCHANGED <<property, caller, spreadsheetIds, trace>>

\* What forEach was seen to do: the call of fn with id, of flush and of
\* sleep, each with the value _JasLibContext.spreadsheetId had then.
Seen(ev, id) == [ev |-> ev, id |-> id, context |-> spreadsheetId]

\* forEach returns, _JasLibContext.spreadsheetId being what it is set to.
Returned == [ev |-> "return", id |-> "", context |-> spreadsheetId']

\* ClientSheetManager.forEach(fn), lines 63-68: up to the first call of fn,
\* or all of it when no id is registered.
ClientSheetManager_forEach ==
  /\ Operating
  /\ LET all == getAll(property)
     IN /\ all.ok
        /\ spreadsheetIds' = all.list
        /\ IF all.list = <<>>
           THEN /\ spreadsheetId' = ""
                /\ caller' = "idle"
                /\ trace' = trace \o <<Seen("forEach", ""), Returned>>
           ELSE /\ spreadsheetId' = Head(all.list)
                /\ caller' = "fn"
                /\ trace' = Append(trace, Seen("forEach", ""))
  /\ ops' = Append(ops, Op("forEach", "", FALSE, FALSE, FALSE))
  /\ UNCHANGED property

\* Mutant: the context keeps the last id when forEach returns.
fnReturnsKeepingContext ==
  /\ caller = "fn"
  /\ LET id == Head(spreadsheetIds)
         rest == Tail(spreadsheetIds)
         called == trace \o <<Seen("fn", id), Seen("flush", id),
                              Seen("sleep", id)>>
     IN /\ spreadsheetIds' = rest
        /\ IF rest = <<>>
           THEN /\ UNCHANGED spreadsheetId
                /\ caller' = "idle"
                /\ trace' = Append(called, Returned)
           ELSE /\ spreadsheetId' = Head(rest)
                /\ caller' = "fn"
                /\ trace' = called
  /\ UNCHANGED <<property, ops, engine>>

\* forEach, lines 68-74: fn returned; flush, sleep, and either the next id
\* and its call of fn, or the end of the loop.
fnReturns ==
  /\ caller = "fn"
  /\ LET id == Head(spreadsheetIds)
         rest == Tail(spreadsheetIds)
         called == trace \o <<Seen("fn", id), Seen("flush", id),
                              Seen("sleep", id)>>
     IN /\ spreadsheetIds' = rest
        /\ IF rest = <<>>
           THEN /\ spreadsheetId' = ""
                /\ caller' = "idle"
                /\ trace' = Append(called, Returned)
           ELSE /\ spreadsheetId' = Head(rest)
                /\ caller' = "fn"
                /\ trace' = called
  /\ UNCHANGED <<property, ops, engine>>

\* fn threw: forEach has no try, the exception leaves it.
fnThrows ==
  /\ caller = "fn"
  /\ caller' = "idle"
  /\ spreadsheetIds' = <<>>
  /\ trace' = trace \o <<Seen("fn", Head(spreadsheetIds)), Seen("throw", "")>>
  /\ UNCHANGED <<property, spreadsheetId, ops, engine>>

NextClientSheets ==
  \/ ClientSheetManager_register
  \/ ClientSheetManager_unregister
  \/ ClientSheetManager_forEach
  \/ fnReturns
  \/ fnThrows
  \/ testing

\* The registry is empty and no Tester is in use.
InitClientSheets == Init /\ ~verbose

SpecClientSheets == InitClientSheets /\ [][NextClientSheets]_vars

-----------------------------------------------------------------------------
(* Properties                                                              *)

Settled(u) == units[u].outcome # "running"

\* The places of the log where callback (or spy) id ran as ev for unit u.
Ran(ev, id, u) ==
  {i \in DOMAIN log : log[i].ev = ev /\ log[i].id = id /\ log[i].u = u}

\* The places of the log where anything ran as ev for unit u.
EachOf(ev, u) == {i \in DOMAIN log : log[i].ev = ev /\ log[i].u = u}

\* The place of context c in the stack unit u ran with (0: not on it).
Depth(u, c) ==
  IF \E d \in DOMAIN units[u].stack : units[u].stack[d] = c
  THEN CHOOSE d \in DOMAIN units[u].stack : units[u].stack[d] = c
  ELSE 0

OnPath(h, u) == Depth(u, hook[h].scope) # 0

\* C1: once finish() has ended a run, every beforeAll callback registered in
\* any scope, wherever in the scope's body, has executed exactly once.
C1_BeforeAllsRunExactlyOnce ==
  pc = "done" =>
    \A h \in DOMAIN hook :
      hook[h].type = "beforeAll" => Cardinality(Ran("beforeAll", h, 0)) = 1

\* C2: when a unit body throws, it() leaves the Tester ready for the next
\* sibling: isInsideUnit is false, the context stack, the current context and
\* the indentation are those it() started with, no hook list and no
\* beforeAllsCalled flag has changed, every afterEach on the stack has run
\* once for the unit and clearCalls has been called on every spy registered
\* on the stack.
C2_FailedUnitLeavesSiblingState ==
  [][(pc = "unit" /\ pc' = "idle" /\ Last(units').outcome = "failed") =>
       LET u == Len(units)
       IN /\ ~isInsideUnit'
          /\ ~illegalContext("it")'
          /\ descriptionContextStack' = units[u].stack
          /\ currentDescriptionContext' = units[u].scope
          /\ indentation' = units[u].indentation
          /\ \A c \in DOMAIN ctx :
               /\ ctx'[c].beforeAlls = ctx[c].beforeAlls
               /\ ctx'[c].beforeEaches = ctx[c].beforeEaches
               /\ ctx'[c].afterEaches = ctx[c].afterEaches
               /\ ctx'[c].afterAlls = ctx[c].afterAlls
               /\ ctx'[c].beforeAllsCalled = ctx[c].beforeAllsCalled
          /\ \A d \in DOMAIN units[u].stack :
               LET c == units[u].stack[d]
               IN /\ \A k \in DOMAIN ctx[c].afterEaches :
                       Cardinality({i \in DOMAIN log' :
                          /\ log'[i].ev = "afterEach"
                          /\ log'[i].id = ctx[c].afterEaches[k]
                          /\ log'[i].u = u}) = 1
                  /\ \A k \in DOMAIN ctx'[c].spies :
                       \E i \in DOMAIN log' :
                          /\ log'[i].ev = "clearCalls"
                          /\ log'[i].id = ctx'[c].spies[k]
                          /\ log'[i].u = u]_vars

\* C2 witness: a second unit runs in the scope of a first one that failed
\* and for which an afterEach ran and a spy was cleared.
C2_Witness ==
  /\ Len(units) = 2
  /\ units[1].outcome = "failed"
  /\ units[2].scope = units[1].scope
  /\ pc = "unit"
  /\ EachOf("afterEach", 1) # {}
  /\ EachOf("clearCalls", 1) # {}

\* The callbacks that ran as ev for unit u ran root to leaf, and in
\* registration order within a scope.
RootToLeaf(ev, u) ==
  \A i, j \in EachOf(ev, u) :
    i < j =>
      LET di == Depth(u, hook[log[i].id].scope)
          dj == Depth(u, hook[log[j].id].scope)
      IN di < dj \/ (di = dj /\ log[i].id < log[j].id)

\* C3: for every unit, the beforeEach callbacks run root to leaf before the
\* body, the afterEach callbacks run root to leaf (not reversed) after the
\* body has settled.
C3_HooksRunRootToLeaf ==
  \A u \in DOMAIN units :
    Settled(u) =>
      /\ RootToLeaf("beforeEach", u)
      /\ RootToLeaf("afterEach", u)
      /\ \A i \in EachOf("beforeEach", u) : \A b \in EachOf("body", u) : i < b
      /\ \A i \in EachOf("afterEach", u) :
           \A b \in EachOf("settled", u) : b < i
      /\ Cardinality(EachOf("body", u)) = 1
      /\ Cardinality(EachOf("settled", u)) = 1

\* C3 witness: a unit under a describe() has settled, with an afterEach of
\* the root and one of the describe() run for it.
C3_Witness ==
  \E u \in DOMAIN units :
    /\ Settled(u)
    /\ Len(units[u].stack) = 2
    /\ \E i, j \in EachOf("afterEach", u) :
         hook[log[i].id].scope # hook[log[j].id].scope

PerUnit(h) == hook[h].type \in {"beforeEach", "afterEach"}

\* C4 as stated: for every unit, every beforeEach and afterEach callback
\* registered in the unit's scope or an ancestor runs exactly once for it,
\* and no other one runs for it.
C4_EveryHookOnPathRuns ==
  \A u \in DOMAIN units :
    Settled(u) =>
      \A h \in DOMAIN hook :
        PerUnit(h) =>
          Cardinality(Ran(hook[h].type, h, u)) = IF OnPath(h, u) THEN 1 ELSE 0

\* C4 amended: for every unit, every beforeEach and afterEach callback that
\* was registered in the unit's scope or an ancestor before it() was called
\* runs exactly once for it, and no other one runs for it.
C4_EveryHookRegisteredBeforeRuns ==
  \A u \in DOMAIN units :
    Settled(u) =>
      \A h \in DOMAIN hook :
        PerUnit(h) =>
          Cardinality(Ran(hook[h].type, h, u)) =
            IF OnPath(h, u) /\ h <= units[u].hooks THEN 1 ELSE 0

\* C4 witness: a unit under a describe() has settled and a callback
\* registered on the root ran for it.
C4_Witness ==
  \E u \in DOMAIN units :
    /\ Settled(u)
    /\ units[u].scope # Root
    /\ \E h \in DOMAIN hook :
         PerUnit(h) /\ hook[h].scope = Root /\ Ran(hook[h].type, h, u) # {}

\* The step in which it() ends, the unit body having returned or thrown.
UnitSettles == pc = "unit" /\ pc' = "idle"

\* C5: after every unit, passing or failing, the call history of every spy
\* registered on a scope of the context stack is empty (so the next unit
\* never sees calls made during this one).
C5_HistoriesEmptyAfterUnit ==
  [][UnitSettles =>
       \A d \in DOMAIN descriptionContextStack' :
         LET c == descriptionContextStack'[d]
         IN \A k \in DOMAIN ctx'[c].spies :
              spy'[ctx'[c].spies[k]].calls = 0]_vars

\* The counters of every context but cur are unchanged, and those of cur
\* grow by ds and df.
CountersChangeBy(cur, ds, df) ==
  \A c \in DOMAIN ctx :
    /\ ctx'[c].successCount =
         ctx[c].successCount + (IF c = cur THEN ds ELSE 0)
    /\ ctx'[c].failureCount =
         ctx[c].failureCount + (IF c = cur THEN df ELSE 0)

\* The lines the step appended to the output of context c.
Appended(c) ==
  SubSeq(ctx'[c].output, Len(ctx[c].output) + 1, Len(ctx'[c].output))

DiagnosticKinds == {"stack1", "stack2", "message", "noErrorObject"}

\* C6 as stated: a settling it() changes exactly one counter of the current
\* scope by one (successCount when the body returned, failureCount when it
\* threw), ends in the caller's hands, and on failure appends a diagnostic
\* to the scope's output, verbose or not.
C6_FailureAlwaysAppendsDiagnostic ==
  [][UnitSettles =>
       LET cur == currentDescriptionContext
           ok == Last(units').outcome = "passed"
       IN /\ CountersChangeBy(cur, IF ok THEN 1 ELSE 0, IF ok THEN 0 ELSE 1)
          /\ ~ok => \E i \in DOMAIN Appended(cur) :
                      Appended(cur)[i].kind \in DiagnosticKinds]_vars

\* C6 amended: a settling it() changes exactly one counter of the current
\* scope by one (successCount when the body returned, failureCount when it
\* threw) and no counter of another scope; on failure, verbose or not, it
\* appends the failure marker line, followed by the lines of the diagnostic
\* unless the diagnostic text is empty (an Error whose stack and message
\* are both empty), each behind the scope's indentation.
C6_UnitCountedOnceAndReported ==
  [][UnitSettles =>
       LET cur == currentDescriptionContext
           u == Len(units)
           ok == Last(units').outcome = "passed"
           new == Appended(cur)
       IN /\ CountersChangeBy(cur, IF ok THEN 1 ELSE 0, IF ok THEN 0 ELSE 1)
          /\ Last(units').outcome \in {"passed", "failed"}
          /\ \A i \in DOMAIN new :
               new[i].indent = units[u].indentation /\ new[i].of = u
          /\ ok => new = IF verbose
                         THEN <<Line(units[u].indentation, "pass", u)>>
                         ELSE <<>>
          /\ ~ok =>
               /\ new # <<>>
               /\ new[1].kind = "fail"
               /\ \A i \in 2..Len(new) : new[i].kind \in DiagnosticKinds
               /\ Len(new) = 1 <=> Last(units').thrown = "errorEmpty"]_vars

\* C6 witness: a unit failed on an Error without stack and message and is
\* counted as the only failure of its scope.
C6_Witness ==
  /\ pc = "idle"
  /\ \E u \in DOMAIN units :
       /\ units[u].outcome = "failed"
       /\ units[u].thrown = "errorEmpty"
       /\ ctx[units[u].scope].failureCount = 1
       /\ ctx[units[u].scope].successCount = 0

\* The step in which an API call throws a usage error.
UsageErrorRaised == Len(usage') > Len(usage)

RECURSIVE Sum(_)
Sum(ns) == IF ns = <<>> THEN 0 ELSE Head(ns) + Sum(Tail(ns))

\* The successCounts and failureCounts of the contexts on the stack.
Successes ==
  [d \in DOMAIN descriptionContextStack |->
     ctx[descriptionContextStack[d]].successCount]

Failures ==
  [d \in DOMAIN descriptionContextStack |->
     ctx[descriptionContextStack[d]].failureCount]

UnitsThat(outcome) == {u \in DOMAIN units : units[u].outcome = outcome}

\* C8: the counters of the contexts on the stack always add up to the units
\* that passed and the units that failed so far (a returning describe()
\* moves its counts to the parent, none lost, none counted twice), and the
\* TestResult of finish() holds the number of units whose body returned and
\* the number of units whose body threw, over all nesting levels.
C8_CountsAreTotals ==
  /\ Sum(Successes) = Cardinality(UnitsThat("passed"))
  /\ Sum(Failures) = Cardinality(UnitsThat("failed"))
  /\ pc = "done" =>
       /\ result.successCount = Cardinality(UnitsThat("passed"))
       /\ result.failureCount = Cardinality(UnitsThat("failed"))

\* C8 witness: finish() returned one success and one failure, of units of
\* different scopes.
C8_Witness ==
  /\ pc = "done"
  /\ result.successCount = 1
  /\ result.failureCount = 1
  /\ units[1].scope # units[2].scope

HasLine(out, kind, of) ==
  \E i \in DOMAIN out : out[i].kind = kind /\ out[i].of = of

HasDiagnostic(out, u) ==
  \E i \in DOMAIN out : out[i].kind \in DiagnosticKinds /\ out[i].of = u

\* C9 as stated, its last part: every failing unit's marker line and
\* diagnostic reach the output returned by finish().
C9_FailureLinesReachResult ==
  pc = "done" =>
    \A u \in UnitsThat("failed") :
      HasLine(result.output, "fail", u) /\ HasDiagnostic(result.output, u)

\* The step in which a describe() returns.
DescribeReturns == pc' = "idle" /\ Len(frames') < Len(frames)

\* C9 amended: a returning describe() extends the parent's output by exactly
\* a blank line, the description line and the child's lines if the Tester is
\* verbose or the child (with its folded descendants) has failures, and
\* leaves it unchanged otherwise; a passing unit's marker line is in the
\* output of finish() exactly when the run is verbose, and every failing
\* unit's marker line is in it, with its diagnostic unless the diagnostic
\* text is empty.
C9_OutputFoldsUpward ==
  /\ [][DescribeReturns =>
          LET child == Last(descriptionContextStack)
              parent == Last(descriptionContextStack')
          IN Appended(parent) =
               IF verbose \/ ctx[child].failureCount > 0
               THEN <<Line(0, "", 0),
                      Line(indentation - INDENT_PER_LEVEL, "description",
                           Last(frames))>> \o ctx[child].output
               ELSE <<>>]_vars
  /\ [](pc = "done" =>
          /\ \A u \in UnitsThat("failed") :
               /\ HasLine(result.output, "fail", u)
               /\ HasDiagnostic(result.output, u)
                    <=> units[u].thrown # "errorEmpty"
          /\ \A u \in UnitsThat("passed") :
               HasLine(result.output, "pass", u) <=> verbose)

\* C9 witness: a quiet run ended whose output holds the marker line of a
\* unit that failed two describe() levels down.
C9_Witness ==
  /\ pc = "done"
  /\ ~verbose
  /\ \E u \in UnitsThat("failed") :
       Len(units[u].stack) = 3 /\ HasLine(result.output, "fail", u)

Exited(c) == \E i \in DOMAIN exits : exits[i] = c

\* C10: a spy has been reset exactly once if the scope it was registered on
\* has exited and not at all otherwise; the spies of a scope are reset last
\* installed first; after finish() every spy has been reset and the spied
\* method is the original function again.
C10_SpiesResetAtScopeExit ==
  /\ \A s \in DOMAIN spy :
       spy[s].resets = IF Exited(spy[s].owner) THEN 1 ELSE 0
  /\ \A i, j \in DOMAIN log :
       (i < j /\ log[i].ev = "reset" /\ log[j].ev = "reset"
          /\ log[i].at = log[j].at) => log[i].id > log[j].id
  /\ pc = "done" => slot = 0 /\ \A s \in DOMAIN spy : spy[s].resets = 1

\* C10 witness: a run ended in which two spies of one scope were reset.
C10_Witness ==
  /\ pc = "done"
  /\ \E s, t \in DOMAIN spy :
       s # t /\ spy[s].owner = spy[t].owner /\ spy[s].resets = 1

\* The step in which xit() or xdescribe() is called.
Skips == Len(skips') > Len(skips)

SkippedKinds == {"skippedUnit", "skippedDescription"}

\* C11: a call of xit() or xdescribe(), inside a unit body or outside, runs
\* no body and no hook, throws nothing, leaves the counters, the hook lists,
\* beforeAllsCalled and the spies of every scope, the context stack, the
\* current context, the indentation, isInsideUnit and every spy unchanged,
\* and only appends the 'skipped' marker line (after an empty line for
\* xdescribe) to the output of the current scope, behind the indentation.
C11_SkippedOnlyAppendsMarker ==
  [][Skips =>
       LET cur == currentDescriptionContext
           new == Appended(cur)
       IN /\ Tester' = [Tester EXCEPT ![2] = ctx']
          /\ log' = log /\ usage' = usage /\ units' = units
          /\ pc' = pc /\ frames' = frames
          /\ Len(ctx') = Len(ctx)
          /\ \A c \in DOMAIN ctx :
               ctx'[c] = [ctx[c] EXCEPT !.output = ctx'[c].output]
          /\ \A c \in DOMAIN ctx : c # cur => ctx'[c].output = ctx[c].output
          /\ ctx'[cur].output = ctx[cur].output \o new
          /\ new = IF Last(skips').api = "xit"
                   THEN <<Line(indentation, "skippedUnit", 0)>>
                   ELSE <<Line(indentation, "", 0),
                          Line(indentation, "skippedDescription", 0)>>]_vars

\* C11 witness: xit() was called in a scope whose registered beforeAll has
\* not run, and the scope's output holds the marker.
C11_Witness ==
  \E i \in DOMAIN skips :
    /\ skips[i].api = "xit"
    /\ ctx[skips[i].at].beforeAlls # <<>>
    /\ ~ctx[skips[i].at].beforeAllsCalled
    /\ HasLine(ctx[skips[i].at].output, "skippedUnit", 0)

\* Every beforeAll callback registered on scope c before event i of the log
\* has run before that event.
BeforeAllsRanBefore(c, i) ==
  \A h \in DOMAIN hook :
    (hook[h].type = "beforeAll" /\ hook[h].scope = c /\ hook[h].logged < i)
      => \E j \in 1..(i - 1) : log[j].ev = "beforeAll" /\ log[j].id = h

\* Event i is the first of its kind in its scope.
FirstOfScope(i) ==
  \A j \in 1..(i - 1) : ~(log[j].ev = log[i].ev /\ log[j].at = log[i].at)

\* C12: for every scope including the root, the beforeAll callbacks of the
\* scope have run when the body of its first unit starts, when the body of
\* the first describe() nested in it starts, and when any of its afterAll
\* callbacks runs (in describe() or, for the root, in finish()).
C12_BeforeAllsRunBeforeFirstUse ==
  \A i \in DOMAIN log :
    /\ (log[i].ev \in {"body", "describe"} /\ FirstOfScope(i))
         => BeforeAllsRanBefore(log[i].at, i)
    /\ log[i].ev = "afterAll" => BeforeAllsRanBefore(log[i].at, i)

\* C13: a run is never left by an exception unless a usage error was thrown
\* outside a unit body and not caught: whatever a unit body or a registered
\* callback throws, every describe() and it() returns to its caller.
C13_OnlyUsageErrorsAbort ==
  pc = "aborted" =>
    \E i \in DOMAIN usage : ~usage[i].inUnit /\ ~usage[i].caught

\* The registered ids a stored value stands for, in stored order, and as a
\* set.
Registered(value) == getAll(value).list

IdsOf(list) == {list[i] : i \in DOMAIN list}

NoDuplicate(list) ==
  \A i, j \in DOMAIN list : i # j => list[i] # list[j]

\* The step in which ClientSheetManager is called for op.
Operates(op) == Len(ops') > Len(ops) /\ Last(ops').op = op

C15_InvalidSheetNotRegistered ==
  [][(/\ Operates("register")
      /\ Last(ops').configInvalid \/ Last(ops').balanceInvalid)
       => IdsOf(Registered(property')) = IdsOf(Registered(property))]_vars

\* C16: unregister of a registered id writes the list without that id, the
\* other ids in place; unregister of another id leaves the stored value as
\* it is and writes nothing.
C16_UnregisterRemovesExactlyThatId ==
  [][Operates("unregister") =>
       LET id == Last(ops').id
           before == Registered(property)
           after == Registered(property')
       IN IF id \in IdsOf(before)
          THEN /\ Last(ops').wrote
               /\ after = SelectSeq(before, LAMBDA x : x # id)
               /\ IdsOf(after) = IdsOf(before) \ {id}
          ELSE property' = property /\ ~Last(ops').wrote]_vars

\* C16 witness: with two ids registered, one was unregistered and then
\* unregistered again, the other one staying registered.
C16_Witness ==
  /\ Len(ops) = 4
  /\ ops[3].op = "unregister" /\ ops[3].wrote
  /\ Len(Registered(ops[3].before)) = 2
  /\ ops[4].op = "unregister" /\ ops[4].id = ops[3].id /\ ~ops[4].wrote
  /\ Len(Registered(property)) = 1

\* What forEach does for the ids: fn, flush, sleep for each in turn, the
\* context holding the id.
RECURSIVE Touches(_)
Touches(ids) ==
  IF ids = <<>> THEN <<>>
  ELSE LET id == Head(ids)
       IN <<[ev |-> "fn", id |-> id, context |-> id],
            [ev |-> "flush", id |-> id, context |-> id],
            [ev |-> "sleep", id |-> id, context |-> id]>>
            \o Touches(Tail(ids))

\* The events from the last call of forEach on.
LastForEach(tr) ==
  LET start == CHOOSE i \in DOMAIN tr :
                 /\ tr[i].ev = "forEach"
                 /\ \A j \in DOMAIN tr : tr[j].ev = "forEach" => j <= i
  IN SubSeq(tr, start + 1, Len(tr))

\* The step in which forEach returns.
ForEachReturns == Len(trace') > Len(trace) /\ Last(trace').ev = "return"

\* C17: when forEach(fn) returns it has called, for each registered id in
\* stored order, fn with that id, then flush, then sleep, each once and
\* with the context's spreadsheetId being that id (so n calls of each for n
\* ids), and the context's spreadsheetId is ''.
C17_ForEachTouchesEachSheetOnce ==
  [][ForEachReturns =>
       /\ LastForEach(trace') =
            Touches(Registered(property))
              \o <<[ev |-> "return", id |-> "", context |-> ""]>>
       /\ spreadsheetId' = ""]_vars

\* C17 witness: forEach returned with two ids registered, the context
\* having held another id when it was called.
C17_Witness ==
  /\ caller = "idle"
  /\ trace # <<>>
  /\ Last(trace).ev = "return"
  /\ Len(Registered(property)) = 2
  /\ trace[1].context \in Ids \ IdsOf(Registered(property))

\* C18: isInsideUnit is true exactly while a unit body executes: it was
\* false when any hook callback ran and true when every body started, and
\* it is false whenever the test program is outside a unit body, also
\* after an it() whose body threw and after an it() that a hook made throw.
C18_InsideUnitOnlyDuringBody ==
  /\ isInsideUnit <=> pc = "unit"
  /\ \A i \in DOMAIN log :
       /\ log[i].ev \in HookTypes => ~log[i].inside
       /\ log[i].ev = "body" => log[i].inside

\* C18 witness: the body of a unit threw, and then an afterEach callback
\* threw out of it(); isInsideUnit is false.
C18_Witness ==
  /\ pc = "aborted"
  /\ usage = <<>>
  /\ units # <<>>
  /\ Last(units).outcome = "failed"
  /\ Last(log).ev = "afterEach"
  /\ ~isInsideUnit

\* C19: in every state the current context is the last one of the stack,
\* the stack starts with the root, and it holds one context more than there
\* are describe() bodies executing (so each describe() that has returned
\* has left the stack as it found it).
C19_StackMatchesDescribes ==
  /\ descriptionContextStack # <<>>
  /\ Head(descriptionContextStack) = Root
  /\ currentDescriptionContext = Last(descriptionContextStack)
  /\ Len(descriptionContextStack) = Len(frames) + 1

UnitEvents == {"beforeEach", "body", "settled", "afterEach", "clearCalls"}

\* C20: an afterAll callback has run exactly once if its scope has exited
\* and not at all otherwise; when it ran, in its own scope, nothing of a
\* unit of that scope and no nested describe() of that scope came after
\* it, the scope was popped after it and the scope's spies were reset after
\* the pop; an afterAll callback of the root has run only in a run that
\* finish() has ended.
C20_AfterAllsRunOnceAtScopeExit ==
  /\ \A h \in DOMAIN hook :
       hook[h].type = "afterAll" =>
         Cardinality(Ran("afterAll", h, 0)) =
           IF Exited(hook[h].scope) THEN 1 ELSE 0
  /\ \A i \in DOMAIN log :
       log[i].ev = "afterAll" =>
         LET c == log[i].at
         IN /\ c = hook[log[i].id].scope
            /\ \A j \in DOMAIN log :
                 j > i =>
                   /\ log[j].ev \in UnitEvents => units[log[j].u].scope # c
                   /\ log[j].ev \in {"describe", "pop"} => log[j].at # c
            /\ c = Root => pc = "done"
            /\ c # Root =>
                 \E p \in DOMAIN log :
                   /\ p > i
                   /\ log[p].ev = "pop" /\ log[p].id = c
                   /\ \A j \in DOMAIN log :
                        (log[j].ev = "reset" /\ log[j].at = c) => j > p

\* C20 witness: a describe() returned whose scope had an afterAll callback,
\* a unit and a spy.
C20_Witness ==
  \E i, j, k \in DOMAIN log :
    /\ log[i].ev = "settled"
    /\ log[j].ev = "afterAll" /\ log[j].at # Root
    /\ units[log[i].u].scope = log[j].at
    /\ log[k].ev = "reset" /\ log[k].at = log[j].at

\* The kinds of line it() emits for a unit.
UnitKinds == {"pass", "fail"} \cup DiagnosticKinds

\* The lines of unit u in an output.
LinesOf(out, u) ==
  {i \in DOMAIN out : out[i].kind \in UnitKinds /\ out[i].of = u}

\* Every line of a unit in the output is behind the indentation of the
\* unit's scope.
UnitLinesIndented(out) ==
  \A i \in DOMAIN out :
    out[i].kind \in UnitKinds =>
      out[i].indent = INDENT_PER_LEVEL * Len(units[out[i].of].stack)

\* C21: between the steps of describe() and it() the indentation is
\* INDENT_PER_LEVEL times the length of the context stack; an it() that
\* ends, its body having returned or thrown, leaves the indentation it
\* started with, and a describe() that returns leaves that of the stack it
\* returns to; every line emitted for a unit, each line of a diagnostic of
\* several lines included, is behind the indentation of the unit's scope,
\* in the scope's output and wherever describe() and finish() carry it.
C21_IndentationFollowsStack ==
  /\ [](indentation = INDENT_PER_LEVEL * Len(descriptionContextStack))
  /\ [][(pc = "unit" /\ pc' # "unit") =>
          indentation' = units[Len(units)].indentation]_vars
  /\ [][DescribeReturns =>
          /\ indentation' = indentation - INDENT_PER_LEVEL
          /\ indentation' = INDENT_PER_LEVEL * Len(descriptionContextStack')
       ]_vars
  /\ [](/\ \A c \in DOMAIN ctx : UnitLinesIndented(ctx[c].output)
        /\ result.returned => UnitLinesIndented(result.output))

\* C21 witness: a unit of a describe() failed with a diagnostic of two
\* lines, which are in the output of the root after the describe() returned,
\* and the indentation is that of the root again.
C21_Witness ==
  /\ pc = "idle"
  /\ frames = <<>>
  /\ indentation = INDENT_PER_LEVEL
  /\ \E u \in DOMAIN units :
       /\ units[u].thrown = "errorStack"
       /\ Len(units[u].stack) = 2
       /\ \E i, j \in LinesOf(ctx[Root].output, u) :
            /\ ctx[Root].output[i].kind = "stack1"
            /\ ctx[Root].output[j].kind = "stack2"
            /\ ctx[Root].output[i].indent = 2 * INDENT_PER_LEVEL
            /\ ctx[Root].output[j].indent = 2 * INDENT_PER_LEVEL

\* The places of the log where a callback ran that calls spyOn.
SpyingHooks ==
  {i \in DOMAIN log :
     log[i].ev \in HookTypes /\ hook[log[i].id].kind = "spy"}

\* C22: a hook callback that calls spyOn ran with isInsideUnit false and
\* its call was accepted: the new spy is the next thing in the log, it is
\* registered on the context that was current when the callback ran (for a
\* beforeEach or afterEach the scope of the unit it ran for) and on no
\* other; a beforeEach that calls spyOn has installed one spy for each unit
\* it ran for; and each such spy has been reset exactly once if that
\* context has exited and not at all otherwise.
C22_SpyOfHookBelongsToCurrentScope ==
  /\ \A i \in SpyingHooks :
       /\ ~log[i].inside
       /\ i + 1 \in DOMAIN log
       /\ log[i + 1].ev = "spyOn"
       /\ LET s == log[i + 1].id
              c == log[i].at
          IN /\ spy[s].owner = c
             /\ log[i].u \in DOMAIN units => units[log[i].u].scope = c
             /\ \A d \in DOMAIN ctx :
                  Cardinality({k \in DOMAIN ctx[d].spies :
                                 ctx[d].spies[k] = s}) =
                    IF d = c THEN 1 ELSE 0
             /\ spy[s].resets = IF Exited(c) THEN 1 ELSE 0
  /\ \A u \in DOMAIN units :
       \A h \in DOMAIN hook :
         (hook[h].type = "beforeEach" /\ hook[h].kind = "spy"
            /\ OnPath(h, u) /\ h <= units[u].hooks)
           => Cardinality({i \in SpyingHooks :
                             /\ log[i].id = h
                             /\ log[i].u = u
                             /\ spy[log[i + 1].id].owner = units[u].scope})
                = 1

\* C22 witness: a beforeEach registered on the root called spyOn for a
\* unit of a describe(); the spy is of the describe()'s scope and was reset
\* when the describe() returned.
C22_Witness ==
  \E i \in SpyingHooks :
    /\ log[i].ev = "beforeEach"
    /\ hook[log[i].id].scope = Root
    /\ log[i].at # Root
    /\ i + 1 \in DOMAIN log
    /\ spy[log[i + 1].id].owner = log[i].at
    /\ spy[log[i + 1].id].resets = 1

=============================================================================
